---- MODULE Spec2Model ----
(***************************************************************************)
(* Project Relationship & Consolidation Engine of Omny.                    *)
(*                                                                         *)
(* Part 1: the Merge Executor, executeConsolidation() of                   *)
(* server/services/projectConsolidation.ts, run against the repository     *)
(* (projects and tasks of one owner).                                      *)
(* Part 2: the Consolidation Analyzer, analyzeProjectConsolidation() with  *)
(* parseConsolidationResponse(), run against a reasoning service whose     *)
(* answers are arbitrary.                                                  *)
(* Part 3: the Relationship Analyzer, analyzeProjectRelationships() of     *)
(* server/services/projectAnalysis.ts.                                     *)
(***************************************************************************)
EXTENDS Integers, Sequences, FiniteSets, TLC

\* ------------------------------------------------------------------------
\* Bounds of the model
\* ------------------------------------------------------------------------
\* project ids known to the model: 1..MaxProj (a subset of them is live)
MaxProj == 3
\* longest list of approved groups handed to one executeConsolidation run
MaxGroups == 2
\* most projects one approved group lists besides its keep-project
MaxOthers == 2
\* most projects handed to one analyzeProjectConsolidation run
MaxAnalyzed == 61
\* most consolidation groups in one answer of the reasoning service
MaxRespGroups == 2
\* most project mentions handed to one analyzeProjectRelationships run
MaxMentions == 2
\* most projects other requests delete while one executeConsolidation runs
MaxExternalDeletes == 1

\* ------------------------------------------------------------------------
\* Program constants of projectConsolidation.ts
\* ------------------------------------------------------------------------
MAX_TOKENS_PER_REQUEST == 80000
MAX_CONTEXT_LENGTH == 2000
MAX_PROJECTS_PER_BATCH == 30
MAX_RETRIES == 3
INITIAL_RETRY_DELAY_MS == 1000

\* ------------------------------------------------------------------------
\* Data
\* ------------------------------------------------------------------------
\* tasks.projectId is nullable: Null is the unassigned value
Null == 0

ProjIds == 1..MaxProj

\* one task id per project id
TaskIds == 1..MaxProj

\* the set of elements of a sequence
Range(s) == {s[i] : i \in 1..Len(s)}

\* Array.prototype.filter over a sequence of ids, keeping the ids in S
FilterIn(s, S) == SelectSeq(s, LAMBDA x : x \in S)

\* Array.prototype.filter over a sequence of ids, dropping the ids in S
FilterOut(s, S) == SelectSeq(s, LAMBDA x : x \notin S)

\* sequences over S of length at most n, without repeated elements
InjSeqs(S, n) ==
  {s \in UNION {[1..k -> S] : k \in 0..n} :
     \A i, j \in 1..Len(s) : i # j => s[i] # s[j]}

\* the update history a project starts with: Len = p % 3 entries, each one
\* tagged with the project it was written for and its position
InitialUpdates(p) == [k \in 1..(p % 3) |-> [meetingId |-> p, seq |-> k]]

\* a stored project (name, context, updates of the projects table)
NewProject(p) ==
  [name |-> "orig", context |-> "origCtx", updates |-> InitialUpdates(p)]

\* one entry of ConsolidationPreview.proposedConsolidations, reduced to the
\* fields executeConsolidation reads: the ids of sourceProjects, the id of
\* targetProject, mergedName and mergedContext. As in a preview, the
\* keep-project is one of the listed source projects.
Proposals ==
  {[sourceProjects |-> <<t>> \o others,
    targetProject  |-> t,
    mergedName     |-> "merged",
    mergedContext  |-> "mergedCtx"] :
     <<t, others>> \in
       {x \in ProjIds \X InjSeqs(ProjIds, MaxOthers) : x[1] \notin Range(x[2])}}

VARIABLES
  projects,           \* repository: live project id -> stored project
  tasks,              \* repository: task id -> projectId (Null = unassigned)
  consolidations,     \* executeConsolidation: the approved groups (argument)
  pc,                 \* executeConsolidation: "start", "loop", "done"
  idx,                \* executeConsolidation: index of the group to process
  projectMap,         \* executeConsolidation: ids read by getAllProjects
  originalCount,      \* executeConsolidation: projects.length at the start
  deletedProjectIds,  \* executeConsolidation: ids marked as deleted
  results,            \* executeConsolidation: per-group results
  errors,             \* executeConsolidation: recorded errors
  mergeCalls,         \* the calls made to storage.mergeProjects, in order
  result,             \* executeConsolidation: the returned ConsolidationResult
  extDeleted          \* ids deleted by other requests during the run

execVars ==
  <<projects, tasks, consolidations, pc, idx, projectMap, originalCount,
    deletedProjectIds, results, errors, mergeCalls, result, extDeleted>>

VARIABLES
  aCount,        \* analyzeProjectConsolidation: projects.length (ids 1..aCount)
  aChars,        \* name.length + context.length of each project
  aPrompt,       \* getActivePrompt('project_consolidation') finds a prompt
  apc,           \* analyzeProjectConsolidation: "start", "call", "done"
  aBatched,      \* the batch branch was taken
  aI,            \* loop variable i of the batch loop
  attempt,       \* callOpenAIWithRetry: loop variable attempt
  waits,         \* the delays the current invocation has waited, in ms
  aCalls,        \* the callOpenAIWithRetry invocations: the records each covers
  lastOutcome,   \* what the reasoning service answered to the last request
  allGroups,     \* analyzeProjectConsolidation: allGroups
  preview        \* the returned ConsolidationPreview

anVars ==
  <<aCount, aChars, aPrompt, apc, aBatched, aI, attempt, waits, aCalls,
    lastOutcome, allGroups, preview>>

\* analyzeProjectRelationships (server/services/projectAnalysis.ts)
VARIABLES
  newProjects,   \* input.newProjects: the names of the mentions, in order
  rReadOk,       \* the repository reads of the run succeed
  rPrompt,       \* the project_analysis system prompt exists
  rpc,           \* "start", "request", "done" ("idle": no run)
  rRequests,     \* requests sent to the reasoning service by the run
  rOutcome,      \* what the request ended with
  rResult        \* the returned ProjectAnalysisResult

relVars == <<newProjects, rReadOk, rPrompt, rpc, rRequests, rOutcome, rResult>>

\* processProjectAnalysis and the project handling of POST /api/analyze
VARIABLES
  iProjects,     \* repository: project id -> stored project
  iTasks,        \* repository: task id -> stored task
  ipc,           \* "mappings", "assignments", "fallback", "done" ("idle")
  iIdx           \* index of the current loop iteration

ingVars == <<iProjects, iTasks, ipc, iIdx>>

\* ------------------------------------------------------------------------
\* Repository: storage.mergeProjects
\* ------------------------------------------------------------------------
\* concatenation of the updates of the listed projects, in list order
RECURSIVE ConcatUpdates(_, _)
ConcatUpdates(P, ids) ==
  IF ids = <<>> THEN <<>>
  ELSE P[Head(ids)].updates \o ConcatUpdates(P, Tail(ids))

\* mergeProjects fails when the keep-project is not stored
MergeRejects(P, keepId) == keepId \notin DOMAIN P

\* the source ids mergeProjects finds in the repository, in list order
MergePresent(P, sourceIds) == FilterIn(sourceIds, DOMAIN P)

\* projects after mergeProjects: the updates of every source are appended to
\* the keep-project's in list order, name and context are overwritten, the
\* sources are deleted
MergedProjects(P, keepId, sourceIds, mergedName, mergedContext) ==
  LET present == MergePresent(P, sourceIds)
      kept == [name    |-> mergedName,
               context |-> mergedContext,
               updates |-> P[keepId].updates \o ConcatUpdates(P, present)]
  IN [p \in DOMAIN P \ Range(present) |-> IF p = keepId THEN kept ELSE P[p]]

\* tasks after mergeProjects: every task of a source points at the keep-project
MergedTasks(P, T, keepId, sourceIds) ==
  LET present == MergePresent(P, sourceIds)
  IN [t \in DOMAIN T |-> IF T[t] \in Range(present) THEN keepId ELSE T[t]]

\* mergeProjects' return value
MergeCounts(P, T, keepId, sourceIds) ==
  LET present == MergePresent(P, sourceIds)
  IN [updatesConsolidated |-> Len(ConcatUpdates(P, present)),
      tasksReassigned |-> Cardinality({t \in DOMAIN T : T[t] \in Range(present)})]

\* ------------------------------------------------------------------------
\* executeConsolidation
\* ------------------------------------------------------------------------
\* faulty variant: the keep-project is looked up in the snapshot only
KeepInvalid_SnapshotOnly(c, pm, deleted) == c.targetProject \notin pm

\* the group is rejected: its keep-project is not in the snapshot or was
\* marked deleted
KeepInvalid(c, pm, deleted) ==
  c.targetProject \notin pm \/ c.targetProject \in deleted

\* faulty variant: the keep-project is not filtered out of the listed ids
SourceProjectIds_KeepNotFiltered(c) == c.sourceProjects

\* sourceProjectIds: the listed ids without the keep-project
SourceProjectIds(c) == FilterOut(c.sourceProjects, {c.targetProject})

\* missingProjects: source ids not in the snapshot or marked deleted
MissingProjects(c, pm, deleted) ==
  FilterOut(SourceProjectIds(c), pm \ deleted)

\* availableSourceIds: source ids in the snapshot and not marked deleted
AvailableSourceIds(c, pm, deleted) ==
  FilterIn(SourceProjectIds(c), pm \ deleted)

\* the group is skipped after the source check
SkipsGroup(c, pm, deleted) ==
  /\ MissingProjects(c, pm, deleted) # <<>>
  /\ AvailableSourceIds(c, pm, deleted) = <<>>

\* faulty variant: ids marked deleted are handed to mergeProjects again
MergeSourceIds_NoDeletedFilter(c, deleted) == SourceProjectIds(c)

\* faulty variant: the listed ids, keep-project included, are handed over
MergeSourceIds_FromListed(c, deleted) == FilterOut(c.sourceProjects, deleted)

\* the source list handed to storage.mergeProjects
MergeSourceIds(c, deleted) == FilterOut(SourceProjectIds(c), deleted)

\* faulty variant: the keep-project is marked deleted with the sources
MarkedDeleted_AllListed(c) == Range(c.sourceProjects)

\* ids added to deletedProjectIds after a merge
MarkedDeleted(c) == Range(SourceProjectIds(c))

\* sourceProjects of the per-group result
ReportedSources(c) == FilterOut(c.sourceProjects, {c.targetProject})

\* the errors recorded by the source check
SourceErrors(c, pm, deleted) ==
  IF MissingProjects(c, pm, deleted) # <<>>
  THEN <<[kind |-> "source", group |-> idx]>>
  ELSE <<>>

\* finalCount
FinalCount(orig, deleted) == orig - Cardinality(deleted)

\* faulty variant: errors.length >= 0 instead of errors.length === 0
Success_AnyErrorCount(errs) == Len(errs) >= 0

\* success
Success(errs) == errs = <<>>

ExecInit ==
  /\ \E live \in {ProjIds, ProjIds \ {MaxProj}} :
       /\ projects = [p \in live |-> NewProject(p)]
       /\ tasks = [t \in TaskIds |-> IF t \in live THEN t ELSE Null]
  /\ consolidations \in UNION {[1..n -> Proposals] : n \in 0..MaxGroups}
  /\ pc = "start"
  /\ idx = 1
  /\ projectMap = {}
  /\ originalCount = 0
  /\ deletedProjectIds = {}
  /\ results = <<>>
  /\ errors = <<>>
  /\ mergeCalls = <<>>
  /\ result = [success |-> FALSE, originalProjectCount |-> 0,
               finalProjectCount |-> 0, consolidations |-> <<>>,
               hasError |-> FALSE]
  /\ extDeleted = {}

\* getAllProjects, originalCount, projectMap and the empty accumulators
ExecStart ==
  /\ pc = "start"
  /\ projectMap' = DOMAIN projects
  /\ originalCount' = Cardinality(DOMAIN projects)
  /\ pc' = "loop"
  /\ UNCHANGED <<projects, tasks, consolidations, idx, deletedProjectIds,
                 results, errors, mergeCalls, result>>
  /\ UNCHANGED <<extDeleted, anVars, relVars, ingVars>>

\* loop body: the keep-project is gone, an error is recorded
ExecTargetMissing ==
  /\ pc = "loop" /\ idx <= Len(consolidations)
  /\ KeepInvalid(consolidations[idx], projectMap, deletedProjectIds)
  /\ errors' = Append(errors, [kind |-> "target", group |-> idx])
  /\ idx' = idx + 1
  /\ UNCHANGED <<projects, tasks, consolidations, pc, projectMap,
                 originalCount, deletedProjectIds, results, mergeCalls, result>>
  /\ UNCHANGED <<extDeleted, anVars, relVars, ingVars>>

\* loop body: some sources are missing and none is available
ExecNoSources ==
  /\ pc = "loop" /\ idx <= Len(consolidations)
  /\ LET c == consolidations[idx] IN
       /\ ~KeepInvalid(c, projectMap, deletedProjectIds)
       /\ SkipsGroup(c, projectMap, deletedProjectIds)
       /\ errors' = errors \o SourceErrors(c, projectMap, deletedProjectIds)
  /\ idx' = idx + 1
  /\ UNCHANGED <<projects, tasks, consolidations, pc, projectMap,
                 originalCount, deletedProjectIds, results, mergeCalls, result>>
  /\ UNCHANGED <<extDeleted, anVars, relVars, ingVars>>

\* loop body: storage.mergeProjects is called and returns
ExecMerge ==
  /\ pc = "loop" /\ idx <= Len(consolidations)
  /\ LET c == consolidations[idx]
         keepId == c.targetProject
         srcIds == MergeSourceIds(c, deletedProjectIds)
         counts == MergeCounts(projects, tasks, keepId, srcIds)
     IN
       /\ ~KeepInvalid(c, projectMap, deletedProjectIds)
       /\ ~SkipsGroup(c, projectMap, deletedProjectIds)
       /\ ~MergeRejects(projects, keepId)
       /\ mergeCalls' = Append(mergeCalls,
                               [group |-> idx, keep |-> keepId, sources |-> srcIds])
       /\ projects' = MergedProjects(projects, keepId, srcIds,
                                     c.mergedName, c.mergedContext)
       /\ tasks' = MergedTasks(projects, tasks, keepId, srcIds)
       /\ deletedProjectIds' = deletedProjectIds \cup MarkedDeleted(c)
       /\ results' = Append(results,
            [group |-> idx,
             sourceProjects |-> ReportedSources(c),
             targetProject |-> [id |-> keepId, name |-> c.mergedName,
                                mergedContext |-> c.mergedContext],
             updatesConsolidated |-> counts.updatesConsolidated,
             tasksReassigned |-> counts.tasksReassigned])
       /\ errors' = errors \o SourceErrors(c, projectMap, deletedProjectIds)
  /\ idx' = idx + 1
  /\ UNCHANGED <<consolidations, pc, projectMap, originalCount, result>>
  /\ UNCHANGED <<extDeleted, anVars, relVars, ingVars>>

\* loop body: storage.mergeProjects is called and throws; the catch block
\* records the error
ExecMergeThrows ==
  /\ pc = "loop" /\ idx <= Len(consolidations)
  /\ LET c == consolidations[idx]
         keepId == c.targetProject
         srcIds == MergeSourceIds(c, deletedProjectIds)
     IN
       /\ ~KeepInvalid(c, projectMap, deletedProjectIds)
       /\ ~SkipsGroup(c, projectMap, deletedProjectIds)
       /\ mergeCalls' = Append(mergeCalls,
                               [group |-> idx, keep |-> keepId, sources |-> srcIds])
       /\ errors' = (errors \o SourceErrors(c, projectMap, deletedProjectIds))
                      \o <<[kind |-> "exception", group |-> idx]>>
  /\ idx' = idx + 1
  /\ UNCHANGED <<projects, tasks, consolidations, pc, projectMap,
                 originalCount, deletedProjectIds, results, result>>
  /\ UNCHANGED <<extDeleted, anVars, relVars, ingVars>>

\* after the loop: finalCount and the returned ConsolidationResult
ExecReturn ==
  /\ pc = "loop" /\ idx > Len(consolidations)
  /\ result' = [success |-> Success(errors),
                originalProjectCount |-> originalCount,
                finalProjectCount |-> FinalCount(originalCount, deletedProjectIds),
                consolidations |-> results,
                hasError |-> Len(errors) > 0]
  /\ pc' = "done"
  /\ UNCHANGED <<projects, tasks, consolidations, idx, projectMap,
                 originalCount, deletedProjectIds, results, errors, mergeCalls>>
  /\ UNCHANGED <<extDeleted, anVars, relVars, ingVars>>

\* the projects after storage.deleteProject(id)
DeletedProjects(P, id) == [p \in DOMAIN P \ {id} |-> P[p]]

\* the tasks after storage.deleteProject(id): none points at the project
DeletedTasks(T, id) == [t \in DOMAIN T |-> IF T[t] = id THEN Null ELSE T[t]]

\* DELETE /api/projects/:id, served for another request before the run has
\* read the projects or between two iterations of its loop
ExternalDelete ==
  /\ pc \in {"start", "loop"}
  /\ Cardinality(extDeleted) < MaxExternalDeletes
  /\ \E id \in DOMAIN projects :
       /\ projects' = DeletedProjects(projects, id)
       /\ tasks' = DeletedTasks(tasks, id)
       /\ extDeleted' = extDeleted \cup {id}
  /\ UNCHANGED <<consolidations, pc, idx, projectMap, originalCount,
                 deletedProjectIds, results, errors, mergeCalls, result>>
  /\ UNCHANGED <<anVars, relVars, ingVars>>

ExecNext ==
  \/ ExecStart
  \/ ExecTargetMissing
  \/ ExecNoSources
  \/ ExecMerge
  \/ ExecMergeThrows
  \/ ExecReturn

\* ------------------------------------------------------------------------
\* Consolidation Analyzer: inputs and answers of the reasoning service
\* ------------------------------------------------------------------------
\* preview.error when no error is reported (the field is absent)
NoError == ""

\* characters (name plus context) a project of the run may carry
CharChoices == {MAX_CONTEXT_LENGTH, MAX_TOKENS_PER_REQUEST}

\* the ids of the projects passed to the analyzer
ValidProjectIds(n) == 1..n

\* a consolidation group of an answer
AnswerGroup(hasSources, keepIsNumber, sourceIds, keepId) ==
  [hasSources |-> hasSources, keepIsNumber |-> keepIsNumber,
   sourceProjectIds |-> sourceIds, keepProjectId |-> keepId]

\* the groups an answer may hold for a run over n projects; the ids used are
\* the first project, the last project and n + 1, an id no project has
AnswerGroups(n) ==
  {AnswerGroup(TRUE, TRUE, <<1, n>>, 1),       \* first and last, keep first
   AnswerGroup(TRUE, TRUE, <<n>>, n),          \* the last project alone
   AnswerGroup(TRUE, TRUE, <<1, n + 1>>, 1),   \* a source no project has
   AnswerGroup(TRUE, TRUE, <<1, n>>, n + 1),   \* a keep id no project has
   AnswerGroup(TRUE, TRUE, <<n>>, 1),          \* keep not among the sources
   AnswerGroup(FALSE, TRUE, <<>>, 1),          \* no sourceProjectIds array
   AnswerGroup(TRUE, FALSE, <<1, n>>, 0)}      \* keepProjectId is no number

\* the bodies an answer may carry: text that is no JSON, JSON without a
\* consolidationGroups array, or JSON with up to MaxRespGroups groups
AnswerBodies(n) ==
  {[json |-> FALSE, hasGroups |-> FALSE, groups |-> <<>>],
   [json |-> TRUE, hasGroups |-> FALSE, groups |-> <<>>]}
  \cup
  {[json |-> TRUE, hasGroups |-> TRUE, groups |-> g] :
     g \in UNION {[1..k -> AnswerGroups(n)] : k \in 0..MaxRespGroups}}

\* what one request ends with: an HTTP error, a timeout (an error without a
\* status), a completion without content, or a completion with content
FailedRequests ==
  {[kind |-> "http", status |-> 429], [kind |-> "http", status |-> 500],
   [kind |-> "http", status |-> 400], [kind |-> "timeout", status |-> 0],
   [kind |-> "empty", status |-> 0]}

NoOutcome == [kind |-> "none", status |-> 0]

\* ------------------------------------------------------------------------
\* estimateTokens, callOpenAIWithRetry, parseConsolidationResponse
\* ------------------------------------------------------------------------
\* Math.ceil(totalChars * 0.4)
EstimateTokens(totalChars) == (totalChars * 2 + 4) \div 5

\* the early return of analyzeProjectConsolidation, were it taken only for
\* an empty project list
TooFewProjects_OnlyEmpty(n) == n < 1

\* projects.length < 2: there is nothing to consolidate
TooFewProjects(n) == n < 2

\* the batch branch is taken
NeedsBatching(n, chars) ==
  EstimateTokens(n * chars) > MAX_TOKENS_PER_REQUEST \/ n > MAX_PROJECTS_PER_BATCH

\* isRetryable, were every HTTP error status retried
IsRetryable_AnyErrorStatus(o) == o.kind = "http" /\ o.status >= 400

\* isRetryable, were an error without a status retried as well
IsRetryable_NoStatusToo(o) ==
  \/ o.kind = "timeout"
  \/ o.kind = "http" /\ (o.status = 429 \/ (o.status >= 500 /\ o.status < 600))

\* isRetryable: the error carries status 429 or 5xx
IsRetryable(o) ==
  o.kind = "http" /\ (o.status = 429 \/ (o.status >= 500 /\ o.status < 600))

\* the retry test, were it to allow a retry after the last attempt
RetriesRequest_OneTooMany(o, att) == IsRetryable(o) /\ att < MAX_RETRIES

\* the catch block of callOpenAIWithRetry waits and retries
RetriesRequest(o, att) == IsRetryable(o) /\ att < MAX_RETRIES - 1

\* INITIAL_RETRY_DELAY_MS * Math.pow(2, attempt)
RetryDelay(att) == INITIAL_RETRY_DELAY_MS * 2^att

\* faulty variant: keepProjectId is not required to be among the sources
GroupError_NoMembershipCheck(g, validIds) ==
  IF ~g.hasSources THEN "missing sourceProjectIds"
  ELSE IF ~g.keepIsNumber THEN "missing keepProjectId"
  ELSE IF Range(g.sourceProjectIds) \ validIds # {} THEN "invalid project id"
  ELSE IF g.keepProjectId \notin validIds THEN "invalid keepProjectId"
  ELSE NoError

\* faulty variant: the source ids are not looked up in validProjectIds
GroupError_NoSourceIdCheck(g, validIds) ==
  IF ~g.hasSources THEN "missing sourceProjectIds"
  ELSE IF ~g.keepIsNumber THEN "missing keepProjectId"
  ELSE IF g.keepProjectId \notin validIds THEN "invalid keepProjectId"
  ELSE IF g.keepProjectId \notin Range(g.sourceProjectIds)
       THEN "keepProjectId not in sourceProjectIds"
  ELSE NoError

\* the error the validation loop throws for one group, NoError if it passes
GroupError(g, validIds) ==
  IF ~g.hasSources THEN "missing sourceProjectIds"
  ELSE IF ~g.keepIsNumber THEN "missing keepProjectId"
  ELSE IF Range(g.sourceProjectIds) \ validIds # {} THEN "invalid project id"
  ELSE IF g.keepProjectId \notin validIds THEN "invalid keepProjectId"
  ELSE IF g.keepProjectId \notin Range(g.sourceProjectIds)
       THEN "keepProjectId not in sourceProjectIds"
  ELSE NoError

\* the error of the first group that fails validation, NoError if none does
RECURSIVE GroupsError(_, _)
GroupsError(groups, validIds) ==
  IF groups = <<>> THEN NoError
  ELSE IF GroupError(Head(groups), validIds) # NoError
       THEN GroupError(Head(groups), validIds)
  ELSE GroupsError(Tail(groups), validIds)

\* the error parseConsolidationResponse throws for a body, NoError if it
\* returns the parsed groups
ParseError(body, validIds) ==
  IF ~body.json THEN "syntax error"
  ELSE IF ~body.hasGroups THEN "missing consolidationGroups"
  ELSE GroupsError(body.groups, validIds)

\* errorMessage of the catch block for an error thrown by the request
RequestErrorMessage(o) ==
  IF o.kind = "http" /\ o.status = 429 THEN "rate limit exceeded"
  ELSE IF o.kind = "http" /\ o.status >= 500 THEN "service unavailable"
  ELSE IF o.kind = "empty" THEN "No response from OpenAI"
  ELSE "request failed"

\* errorMessage of the catch block for an error thrown by the parser
ParseErrorMessage(e) == IF e = "syntax error" THEN "invalid response from AI" ELSE e

\* one entry of proposedConsolidations
PreviewEntry(g) ==
  [sourceProjects |-> g.sourceProjectIds, targetProject |-> g.keepProjectId]

\* the preview returned when the analysis succeeds
SuccessPreview(n, groups) ==
  [success |-> TRUE, originalProjectCount |-> n,
   proposedConsolidations |-> [i \in 1..Len(groups) |-> PreviewEntry(groups[i])],
   noChanges |-> Len(groups) = 0, error |-> NoError]

\* the preview of a failed analysis, were it reported as an empty success
FailurePreview_EmptySuccess(n, message) ==
  [success |-> TRUE, originalProjectCount |-> n,
   proposedConsolidations |-> <<>>, noChanges |-> TRUE, error |-> NoError]

\* the preview returned when the analysis fails
FailurePreview(n, message) ==
  [success |-> FALSE, originalProjectCount |-> n,
   proposedConsolidations |-> <<>>, noChanges |-> TRUE, error |-> message]

\* a slice, were it not clipped at the end of the project list
BatchSlice_Unclipped(i, n) ==
  [first |-> i + 1, last |-> i + MAX_PROJECTS_PER_BATCH]

\* the records projectsForAnalysis.slice(i, i + MAX_PROJECTS_PER_BATCH) holds
BatchSlice(i, n) ==
  [first |-> i + 1,
   last |-> IF i + MAX_PROJECTS_PER_BATCH < n THEN i + MAX_PROJECTS_PER_BATCH ELSE n]

\* the batch loop has another iteration after the current one
MoreBatches == aBatched /\ aI + MAX_PROJECTS_PER_BATCH < aCount

AnalyzeInit ==
  /\ aCount \in 0..MaxAnalyzed
  /\ aChars \in CharChoices
  /\ aPrompt \in BOOLEAN
  /\ apc = "start"
  /\ aBatched = FALSE
  /\ aI = 0
  /\ attempt = 0
  /\ waits = <<>>
  /\ aCalls = <<>>
  /\ lastOutcome = NoOutcome
  /\ allGroups = <<>>
  /\ preview = FailurePreview(0, NoError)

\* fewer than 2 projects: no call is made
AnalyzeTooFew ==
  /\ apc = "start"
  /\ TooFewProjects(aCount)
  /\ preview' = SuccessPreview(aCount, <<>>)
  /\ apc' = "done"
  /\ UNCHANGED <<aCount, aChars, aPrompt, aBatched, aI, attempt, waits, aCalls,
                 lastOutcome, allGroups>>
  /\ UNCHANGED <<execVars, relVars, ingVars>>

\* the system prompt is not found
AnalyzeNoPrompt ==
  /\ apc = "start"
  /\ ~TooFewProjects(aCount)
  /\ ~aPrompt
  /\ preview' = FailurePreview(aCount, "prompt not found")
  /\ apc' = "done"
  /\ UNCHANGED <<aCount, aChars, aPrompt, aBatched, aI, attempt, waits, aCalls,
                 lastOutcome, allGroups>>
  /\ UNCHANGED <<execVars, relVars, ingVars>>

\* the branch is chosen and the first callOpenAIWithRetry invocation begins
AnalyzeBegin ==
  /\ apc = "start"
  /\ ~TooFewProjects(aCount)
  /\ aPrompt
  /\ aBatched' = NeedsBatching(aCount, aChars)
  /\ aI' = 0
  /\ attempt' = 0
  /\ waits' = <<>>
  /\ aCalls' = <<IF NeedsBatching(aCount, aChars)
                 THEN BatchSlice(0, aCount)
                 ELSE [first |-> 1, last |-> aCount]>>
  /\ apc' = "call"
  /\ UNCHANGED <<aCount, aChars, aPrompt, lastOutcome, allGroups, preview>>
  /\ UNCHANGED <<execVars, relVars, ingVars>>

\* a request fails with a retryable status before the last attempt
RequestRetried ==
  /\ apc = "call"
  /\ \E o \in FailedRequests :
       /\ RetriesRequest(o, attempt)
       /\ lastOutcome' = o
  /\ attempt' = attempt + 1
  /\ waits' = Append(waits, RetryDelay(attempt))
  /\ UNCHANGED <<aCount, aChars, aPrompt, apc, aBatched, aI, aCalls,
                 allGroups, preview>>
  /\ UNCHANGED <<execVars, relVars, ingVars>>

\* a request fails and callOpenAIWithRetry throws; the analysis reports it
RequestThrows ==
  /\ apc = "call"
  /\ \E o \in FailedRequests :
       /\ ~RetriesRequest(o, attempt)
       /\ lastOutcome' = o
       /\ preview' = FailurePreview(aCount, RequestErrorMessage(o))
  /\ apc' = "done"
  /\ UNCHANGED <<aCount, aChars, aPrompt, aBatched, aI, attempt, waits, aCalls, allGroups>>
  /\ UNCHANGED <<execVars, relVars, ingVars>>

\* a request returns content that parseConsolidationResponse rejects
ResponseRejected ==
  /\ apc = "call"
  /\ \E body \in AnswerBodies(aCount) :
       /\ ParseError(body, ValidProjectIds(aCount)) # NoError
       /\ lastOutcome' = [kind |-> "content", status |-> 200, body |-> body]
       /\ preview' = FailurePreview(aCount,
            ParseErrorMessage(ParseError(body, ValidProjectIds(aCount))))
  /\ apc' = "done"
  /\ UNCHANGED <<aCount, aChars, aPrompt, aBatched, aI, attempt, waits, aCalls, allGroups>>
  /\ UNCHANGED <<execVars, relVars, ingVars>>

\* a request returns content that is accepted and another batch follows
BatchAccepted ==
  /\ apc = "call"
  /\ MoreBatches
  /\ \E body \in AnswerBodies(aCount) :
       /\ ParseError(body, ValidProjectIds(aCount)) = NoError
       /\ lastOutcome' = [kind |-> "content", status |-> 200, body |-> body]
       /\ allGroups' = allGroups \o body.groups
  /\ aI' = aI + MAX_PROJECTS_PER_BATCH
  /\ attempt' = 0
  /\ waits' = <<>>
  /\ aCalls' = Append(aCalls, BatchSlice(aI + MAX_PROJECTS_PER_BATCH, aCount))
  /\ UNCHANGED <<aCount, aChars, aPrompt, apc, aBatched, preview>>
  /\ UNCHANGED <<execVars, relVars, ingVars>>

\* the last request returns content that is accepted: the preview is built
AnalysisSucceeds ==
  /\ apc = "call"
  /\ ~MoreBatches
  /\ \E body \in AnswerBodies(aCount) :
       /\ ParseError(body, ValidProjectIds(aCount)) = NoError
       /\ lastOutcome' = [kind |-> "content", status |-> 200, body |-> body]
       /\ allGroups' = allGroups \o body.groups
       /\ preview' = SuccessPreview(aCount, allGroups \o body.groups)
  /\ apc' = "done"
  /\ UNCHANGED <<aCount, aChars, aPrompt, aBatched, aI, attempt, waits, aCalls>>
  /\ UNCHANGED <<execVars, relVars, ingVars>>

AnalyzeNext ==
  \/ AnalyzeTooFew
  \/ AnalyzeNoPrompt
  \/ AnalyzeBegin
  \/ RequestRetried
  \/ RequestThrows
  \/ ResponseRejected
  \/ BatchAccepted
  \/ AnalysisSucceeds

\* the analyzer while the executor runs
AnalyzeIdle ==
  /\ aCount = 0
  /\ aChars = MAX_CONTEXT_LENGTH
  /\ aPrompt = TRUE
  /\ apc = "idle"
  /\ aBatched = FALSE
  /\ aI = 0
  /\ attempt = 0
  /\ waits = <<>>
  /\ aCalls = <<>>
  /\ lastOutcome = NoOutcome
  /\ allGroups = <<>>
  /\ preview = FailurePreview(0, NoError)

\* the executor while the analyzer runs
ExecIdle ==
  /\ projects = <<>>
  /\ tasks = [t \in TaskIds |-> Null]
  /\ consolidations = <<>>
  /\ pc = "idle"
  /\ idx = 1
  /\ projectMap = {}
  /\ originalCount = 0
  /\ deletedProjectIds = {}
  /\ results = <<>>
  /\ errors = <<>>
  /\ mergeCalls = <<>>
  /\ result = [success |-> FALSE, originalProjectCount |-> 0,
               finalProjectCount |-> 0, consolidations |-> <<>>,
               hasError |-> FALSE]
  /\ extDeleted = {}

\* ------------------------------------------------------------------------
\* Relationship Analyzer: analyzeProjectRelationships
\* ------------------------------------------------------------------------
\* the names a mention may carry
MentionNames == 1..MaxMentions

\* a project name no mention carries
OtherName == MaxMentions + 1

\* the mergedName the reasoning service proposes
AiName == MaxMentions + 2

\* a project mapping of a ProjectAnalysisResult; a mergedName of Null and a
\* mergedContext of "" stand for absent fields
Mapping(name, action, target, mergedName, mergedContext, reasoning) ==
  [newProjectName |-> name, action |-> action, targetProjectId |-> target,
   mergedName |-> mergedName, mergedContext |-> mergedContext,
   reasoning |-> reasoning]

\* the projectMappings an answer may carry for the mentions: none; a create
\* per mention; a merge per mention into project 1, without or with
\* mergedName and mergedContext; a merge per mention into MaxProj + 1, an id
\* no project has; a create for a name no mention carries
AnswerMappings(names) ==
  {<<>>,
   [i \in 1..Len(names) |-> Mapping(names[i], "create", Null, Null, "", "ai")],
   [i \in 1..Len(names) |-> Mapping(names[i], "merge", 1, Null, "", "ai")],
   [i \in 1..Len(names) |-> Mapping(names[i], "merge", 1, AiName, "aiCtx", "ai")],
   [i \in 1..Len(names) |->
      Mapping(names[i], "merge", MaxProj + 1, Null, "", "ai")],
   <<Mapping(OtherName, "create", Null, Null, "", "ai")>>}

\* the taskAssignments an answer may carry: none, task 1 or task 2 to
\* project 1, or a task id no task has to project 1
AnswerAssignments ==
  {<<>>,
   <<[taskId |-> 1, projectId |-> 1]>>,
   <<[taskId |-> 2, projectId |-> 1]>>,
   <<[taskId |-> MaxProj + 1, projectId |-> 1]>>}

\* the bodies a completion may carry: text that is no JSON, JSON without
\* projectMappings, JSON without taskAssignments, or a full analysis
RelateBodies(names) ==
  {[json |-> FALSE, hasMappings |-> FALSE, hasAssignments |-> FALSE,
    projectMappings |-> <<>>, taskAssignments |-> <<>>],
   [json |-> TRUE, hasMappings |-> FALSE, hasAssignments |-> TRUE,
    projectMappings |-> <<>>, taskAssignments |-> <<>>],
   [json |-> TRUE, hasMappings |-> TRUE, hasAssignments |-> FALSE,
    projectMappings |-> <<>>, taskAssignments |-> <<>>]}
  \cup
  {[json |-> TRUE, hasMappings |-> TRUE, hasAssignments |-> TRUE,
    projectMappings |-> m, taskAssignments |-> a] :
     m \in AnswerMappings(names), a \in AnswerAssignments}

\* the early return for an empty mention list, were it never taken
NoMentions_Never(names) == FALSE

\* input.newProjects.length === 0
NoMentions(names) == Len(names) = 0

\* the structure check, were taskAssignments not required
BodyAccepted_MappingsOnly(body) == body.json /\ body.hasMappings

\* JSON.parse succeeds and both arrays are present
BodyAccepted(body) == body.json /\ body.hasMappings /\ body.hasAssignments

\* the result built from a body that was accepted
AnalysisResult(body) ==
  [projectMappings |-> body.projectMappings,
   taskAssignments |-> body.taskAssignments]

\* no mention, or no result yet
EmptyResult == [projectMappings |-> <<>>, taskAssignments |-> <<>>]

\* the fallback, were it to return no mapping at all
RelateFallback_NoMappings(names) == EmptyResult

\* the fallback of the catch block: a create mapping per mention
RelateFallback(names) ==
  [projectMappings |->
     [i \in 1..Len(names) |->
        Mapping(names[i], "create", Null, Null, "",
                "Fallback due to analysis error")],
   taskAssignments |-> <<>>]

RelateInit ==
  /\ newProjects \in UNION {[1..k -> MentionNames] : k \in 0..MaxMentions}
  /\ rReadOk \in BOOLEAN
  /\ rPrompt \in BOOLEAN
  /\ rpc = "start"
  /\ rRequests = 0
  /\ rOutcome = NoOutcome
  /\ rResult = EmptyResult

\* a repository read (getAllProjects, getAllTasks, getUser) throws
RelateReadFails ==
  /\ rpc = "start"
  /\ ~rReadOk
  /\ rResult' = RelateFallback(newProjects)
  /\ rpc' = "done"
  /\ UNCHANGED <<newProjects, rReadOk, rPrompt, rRequests, rOutcome>>
  /\ UNCHANGED <<execVars, anVars, ingVars>>

\* no new project is mentioned: the empty result is returned
RelateNoMentions ==
  /\ rpc = "start"
  /\ rReadOk
  /\ NoMentions(newProjects)
  /\ rResult' = EmptyResult
  /\ rpc' = "done"
  /\ UNCHANGED <<newProjects, rReadOk, rPrompt, rRequests, rOutcome>>
  /\ UNCHANGED <<execVars, anVars, ingVars>>

\* the system prompt is not found
RelateNoPrompt ==
  /\ rpc = "start"
  /\ rReadOk
  /\ ~NoMentions(newProjects)
  /\ ~rPrompt
  /\ rResult' = RelateFallback(newProjects)
  /\ rpc' = "done"
  /\ UNCHANGED <<newProjects, rReadOk, rPrompt, rRequests, rOutcome>>
  /\ UNCHANGED <<execVars, anVars, ingVars>>

\* openai.chat.completions.create is called
RelateRequest ==
  /\ rpc = "start"
  /\ rReadOk
  /\ ~NoMentions(newProjects)
  /\ rPrompt
  /\ rRequests' = rRequests + 1
  /\ rpc' = "request"
  /\ UNCHANGED <<newProjects, rReadOk, rPrompt, rOutcome, rResult>>
  /\ UNCHANGED <<execVars, anVars, ingVars>>

\* the request fails or returns no content: the catch block falls back
RelateRequestFails ==
  /\ rpc = "request"
  /\ \E o \in FailedRequests : rOutcome' = o
  /\ rResult' = RelateFallback(newProjects)
  /\ rpc' = "done"
  /\ UNCHANGED <<newProjects, rReadOk, rPrompt, rRequests>>
  /\ UNCHANGED <<execVars, anVars, ingVars>>

\* the content fails JSON.parse or the structure check
RelateBodyRejected ==
  /\ rpc = "request"
  /\ \E body \in RelateBodies(newProjects) :
       /\ ~BodyAccepted(body)
       /\ rOutcome' = [kind |-> "content", status |-> 200, body |-> body]
  /\ rResult' = RelateFallback(newProjects)
  /\ rpc' = "done"
  /\ UNCHANGED <<newProjects, rReadOk, rPrompt, rRequests>>
  /\ UNCHANGED <<execVars, anVars, ingVars>>

\* the content is parsed and returned as the analysis
RelateAnswers ==
  /\ rpc = "request"
  /\ \E body \in RelateBodies(newProjects) :
       /\ BodyAccepted(body)
       /\ rOutcome' = [kind |-> "content", status |-> 200, body |-> body]
       /\ rResult' = AnalysisResult(body)
  /\ rpc' = "done"
  /\ UNCHANGED <<newProjects, rReadOk, rPrompt, rRequests>>
  /\ UNCHANGED <<execVars, anVars, ingVars>>

RelateNext ==
  \/ RelateReadFails
  \/ RelateNoMentions
  \/ RelateNoPrompt
  \/ RelateRequest
  \/ RelateRequestFails
  \/ RelateBodyRejected
  \/ RelateAnswers

\* the relationship analyzer while another part runs
RelateIdle ==
  /\ newProjects = <<>>
  /\ rReadOk = TRUE
  /\ rPrompt = TRUE
  /\ rpc = "idle"
  /\ rRequests = 0
  /\ rOutcome = NoOutcome
  /\ rResult = EmptyResult

\* ------------------------------------------------------------------------
\* Meeting ingestion: processProjectAnalysis and the fallback of /api/analyze
\* ------------------------------------------------------------------------
\* JavaScript's a || b over names (Null is the absent name)
NameOr(a, b) == IF a # Null THEN a ELSE b

\* JavaScript's a || b over contexts (the empty string is falsy)
ContextOr(a, b) == IF a # "" THEN a ELSE b

\* the context a mention carries: the mention named 1 carries none
MentionContext(name) == IF name = 1 THEN "" ELSE "mentionCtx"

\* the update entry written for a mention of the analysed meeting
UpdateEntry(name) == [meetingId |-> "new", update |-> name]

\* a project stored before the meeting was analysed, with two updates
StoredProject(name) ==
  [name |-> name, context |-> "oldCtx",
   updates |-> <<[meetingId |-> "older", update |-> Null],
                 [meetingId |-> "old", update |-> Null]>>]

\* the project handed to storage.createProject for a mention
CreatedProject(name, mention) ==
  [name |-> name, context |-> MentionContext(mention),
   updates |-> <<UpdateEntry(mention)>>]

\* storage.createProject: the row gets the next serial id
WithCreated(P, proj) ==
  [p \in DOMAIN P \cup {Cardinality(DOMAIN P) + 1} |->
     IF p \in DOMAIN P THEN P[p] ELSE proj]

\* the updates of a merge, were the history replaced by the new entry
AppendedUpdates_HistoryReplaced(updates, mention) == <<UpdateEntry(mention)>>

\* [...existingProject.updates, {meetingId, update, date}]
AppendedUpdates(updates, mention) == Append(updates, UpdateEntry(mention))

\* the context of a merge, were the mention's context not consulted
MergedContext_MentionIgnored(m, mention, existing) ==
  ContextOr(m.mergedContext, existing.context)

\* mapping.mergedContext || newProjectData.context || existingProject.context
MergedContext(m, mention, existing) ==
  ContextOr(m.mergedContext, ContextOr(MentionContext(mention), existing.context))

\* the fields storage.updateProject writes for a merge mapping
MergedInto(existing, m, mention) ==
  [name |-> NameOr(m.mergedName, existing.name),
   context |-> MergedContext(m, mention, existing),
   updates |-> AppendedUpdates(existing.updates, mention)]

\* newProjectsData.find(p => p.name === mapping.newProjectName) finds a mention
HasMention(names, name) == name \in Range(names)

\* the mapping takes the create branch
IsCreate(m, names) == HasMention(names, m.newProjectName) /\ m.action = "create"

\* the mapping takes the merge branch (targetProjectId is truthy)
IsMerge(m, names) ==
  /\ HasMention(names, m.newProjectName)
  /\ m.action = "merge"
  /\ m.targetProjectId # Null

\* the projects after one iteration of the mappings loop
ApplyMapping(P, m, names) ==
  IF IsCreate(m, names)
  THEN WithCreated(P, CreatedProject(NameOr(m.mergedName, m.newProjectName),
                                     m.newProjectName))
  ELSE IF IsMerge(m, names) /\ m.targetProjectId \in DOMAIN P
  THEN [P EXCEPT ![m.targetProjectId] =
          MergedInto(P[m.targetProjectId], m, m.newProjectName)]
  ELSE P

\* the tasks after one iteration of the assignments loop: the task is
\* updated when the project is found
ApplyAssignment(P, T, a) ==
  IF a.projectId \in DOMAIN P /\ a.taskId \in DOMAIN T
  THEN [T EXCEPT ![a.taskId].projectId = a.projectId]
  ELSE T

\* the fields the route's fallback writes to a project found by name
FallbackUpdated(existing, mention) ==
  [name |-> existing.name,
   context |-> ContextOr(MentionContext(mention), existing.context),
   updates |-> Append(existing.updates, UpdateEntry(mention))]

\* the tasks after the fallback's simple assignment: the tasks created for
\* this meeting whose text includes the project name go to the project
FallbackAssigned(T, mention, id) ==
  [t \in DOMAIN T |->
     IF T[t].meetingId = "new" /\ T[t].about = mention
     THEN [T[t] EXCEPT !.projectId = id]
     ELSE T[t]]

\* the repository when the meeting is analysed: no project or one project,
\* named like the first mention or differently; task 1 was created for this
\* meeting and is unassigned, task 2 belongs to an earlier meeting
IngestInit ==
  /\ \E stored \in {{}, {1}}, name \in {1, OtherName} :
       /\ iProjects = [p \in stored |-> StoredProject(name)]
       /\ \E about \in {Null, 1}, owner \in {Null} \cup stored :
            iTasks = <<[meetingId |-> "new", projectId |-> Null, about |-> about],
                       [meetingId |-> "old", projectId |-> owner, about |-> Null]>>
  /\ ipc = "mappings"
  /\ iIdx = 1

\* one iteration of the loop over analysis.projectMappings
ProcessMapping ==
  /\ rpc = "done" /\ ipc = "mappings"
  /\ iIdx <= Len(rResult.projectMappings)
  /\ iProjects' = ApplyMapping(iProjects, rResult.projectMappings[iIdx], newProjects)
  /\ iIdx' = iIdx + 1
  /\ UNCHANGED <<iTasks, ipc>>
  /\ UNCHANGED <<execVars, anVars, relVars>>

\* the mappings loop ends, the assignments loop begins
ProcessMappingsDone ==
  /\ rpc = "done" /\ ipc = "mappings"
  /\ iIdx > Len(rResult.projectMappings)
  /\ ipc' = "assignments"
  /\ iIdx' = 1
  /\ UNCHANGED <<iProjects, iTasks>>
  /\ UNCHANGED <<execVars, anVars, relVars>>

\* one iteration of the loop over analysis.taskAssignments
ProcessAssignment ==
  /\ rpc = "done" /\ ipc = "assignments"
  /\ iIdx <= Len(rResult.taskAssignments)
  /\ iTasks' = ApplyAssignment(iProjects, iTasks, rResult.taskAssignments[iIdx])
  /\ iIdx' = iIdx + 1
  /\ UNCHANGED <<iProjects, ipc>>
  /\ UNCHANGED <<execVars, anVars, relVars>>

\* processProjectAnalysis returns
ProcessReturns ==
  /\ rpc = "done" /\ ipc = "assignments"
  /\ iIdx > Len(rResult.taskAssignments)
  /\ ipc' = "done"
  /\ UNCHANGED <<iProjects, iTasks, iIdx>>
  /\ UNCHANGED <<execVars, anVars, relVars>>

\* a storage call of the current iteration rejects: processProjectAnalysis
\* throws and the route's catch block starts the fallback loop
ProcessThrows ==
  /\ rpc = "done"
  /\ \/ /\ ipc = "mappings"
        /\ iIdx <= Len(rResult.projectMappings)
        /\ \/ IsCreate(rResult.projectMappings[iIdx], newProjects)
           \/ IsMerge(rResult.projectMappings[iIdx], newProjects)
     \/ /\ ipc = "assignments"
        /\ iIdx <= Len(rResult.taskAssignments)
  /\ ipc' = "fallback"
  /\ iIdx' = 1
  /\ UNCHANGED <<iProjects, iTasks>>
  /\ UNCHANGED <<execVars, anVars, relVars>>

\* fallback loop: no project has the mention's name, one is created
RouteFallbackCreates ==
  /\ ipc = "fallback"
  /\ iIdx <= Len(newProjects)
  /\ \A p \in DOMAIN iProjects : iProjects[p].name # newProjects[iIdx]
  /\ iProjects' = WithCreated(iProjects,
                    CreatedProject(newProjects[iIdx], newProjects[iIdx]))
  /\ iTasks' = FallbackAssigned(iTasks, newProjects[iIdx],
                                Cardinality(DOMAIN iProjects) + 1)
  /\ iIdx' = iIdx + 1
  /\ UNCHANGED ipc
  /\ UNCHANGED <<execVars, anVars, relVars>>

\* fallback loop: getProjectByName returns a project, which is updated
RouteFallbackUpdates ==
  /\ ipc = "fallback"
  /\ iIdx <= Len(newProjects)
  /\ \E p \in DOMAIN iProjects :
       /\ iProjects[p].name = newProjects[iIdx]
       /\ iProjects' = [iProjects EXCEPT
                          ![p] = FallbackUpdated(iProjects[p], newProjects[iIdx])]
       /\ iTasks' = FallbackAssigned(iTasks, newProjects[iIdx], p)
  /\ iIdx' = iIdx + 1
  /\ UNCHANGED ipc
  /\ UNCHANGED <<execVars, anVars, relVars>>

\* the fallback loop ends
RouteFallbackDone ==
  /\ ipc = "fallback"
  /\ iIdx > Len(newProjects)
  /\ ipc' = "done"
  /\ UNCHANGED <<iProjects, iTasks, iIdx>>
  /\ UNCHANGED <<execVars, anVars, relVars>>

\* the project handling of POST /api/analyze for a meeting that mentions a
\* project: analyzeProjectRelationships, processProjectAnalysis, fallback
IngestNext ==
  \/ RelateReadFails
  \/ RelateNoPrompt
  \/ RelateRequest
  \/ RelateRequestFails
  \/ RelateBodyRejected
  \/ RelateAnswers
  \/ ProcessMapping
  \/ ProcessMappingsDone
  \/ ProcessAssignment
  \/ ProcessReturns
  \/ ProcessThrows
  \/ RouteFallbackCreates
  \/ RouteFallbackUpdates
  \/ RouteFallbackDone

\* the ingestion while another part runs
IngestIdle ==
  /\ iProjects = <<>>
  /\ iTasks = <<>>
  /\ ipc = "idle"
  /\ iIdx = 1

vars == <<execVars, anVars, relVars, ingVars>>

\* ------------------------------------------------------------------------
\* Properties of executeConsolidation
\* ------------------------------------------------------------------------
\* the ids a group lists, keep-project included
GroupIds(c) == Range(c.sourceProjects) \cup {c.targetProject}

\* the approved groups are pairwise disjoint and every id they list was
\* stored when the run started
DisjointLiveGroups ==
  /\ \A i \in 1..Len(consolidations) : GroupIds(consolidations[i]) \subseteq projectMap
  /\ \A i, j \in 1..Len(consolidations) :
       i # j => GroupIds(consolidations[i]) \cap GroupIds(consolidations[j]) = {}

\* every approved group was merged: mergeProjects returned for each of them
AllGroupsMerged == Len(results) = Len(consolidations)

\* the sum over the groups of (k_i - 1)
RECURSIVE SumAbsorbed(_)
SumAbsorbed(cs) ==
  IF cs = <<>> THEN 0
  ELSE (Cardinality(GroupIds(Head(cs))) - 1) + SumAbsorbed(Tail(cs))

\* C1: after a run over disjoint groups of stored projects, in which every
\* group was merged, no task points at a project that is not stored any
\* more, and the task of every merged-away project (task s belongs to
\* project s at the start) points at the keep-project of its group.
C1_NoTaskPointsAtDeletedProject ==
  (pc = "done" /\ DisjointLiveGroups /\ AllGroupsMerged) =>
     /\ \A t \in TaskIds : tasks[t] # Null => tasks[t] \in DOMAIN projects
     /\ \A i \in 1..Len(consolidations) :
          \A s \in GroupIds(consolidations[i]) :
             /\ tasks[s] = consolidations[i].targetProject
             /\ (s # consolidations[i].targetProject => s \notin DOMAIN projects)

\* C1 witness: a finished run over two disjoint groups that moved a task
C1_Witness ==
  /\ pc = "done" /\ DisjointLiveGroups /\ AllGroupsMerged
  /\ Len(consolidations) = 2
  /\ \E t \in TaskIds : tasks[t] # Null /\ tasks[t] # t

\* C2: a merge leaves the keep-project with its own updates followed by the
\* updates of the absorbed sources (the listed sources that were stored), in
\* list order, and removes exactly those sources from the repository.
C2_UpdatesAppendedInListedOrder ==
  [][Len(results') > Len(results) =>
      LET c == consolidations[idx]
          keepId == c.targetProject
          absorbed == SelectSeq(c.sourceProjects,
                        LAMBDA s : s # keepId /\ s \in DOMAIN projects)
      IN /\ keepId \in DOMAIN projects'
         /\ projects'[keepId].updates =
              projects[keepId].updates \o ConcatUpdates(projects, absorbed)
         /\ DOMAIN projects' = DOMAIN projects \ Range(absorbed)]_vars

\* C2 witness: a merge that absorbed two sources carrying three updates
C2_Witness ==
  \E i \in 1..Len(results) :
     /\ Len(results[i].sourceProjects) = 2
     /\ results[i].updatesConsolidated = 3
     /\ Range(results[i].sourceProjects) \cap DOMAIN projects = {}

\* C3: after a run over disjoint groups of stored projects, in which every
\* group was merged, finalProjectCount is originalProjectCount minus the sum
\* of (k_i - 1), and that many projects are stored.
C3_FinalCountIsOriginalMinusAbsorbed ==
  (pc = "done" /\ DisjointLiveGroups /\ AllGroupsMerged) =>
     /\ result.finalProjectCount =
          result.originalProjectCount - SumAbsorbed(consolidations)
     /\ result.originalProjectCount = Cardinality(projectMap)

\* C3 witness: a finished run over two disjoint groups that absorbed a project
C3_Witness ==
  /\ pc = "done" /\ DisjointLiveGroups /\ AllGroupsMerged
  /\ Len(consolidations) = 2
  /\ SumAbsorbed(consolidations) >= 1
  /\ result.finalProjectCount < result.originalProjectCount

\* the merge call of group g returned (a per-group result exists)
MergeReturned(g) == \E i \in 1..Len(results) : results[i].group = g

\* C4: a project absorbed by a group is neither a source nor the
\* keep-project of any later merge call of the run.
C4_FirstGroupWins ==
  \A i, j \in 1..Len(mergeCalls) :
     (i < j /\ MergeReturned(mergeCalls[i].group)) =>
        \A s \in Range(mergeCalls[i].sources) \cap projectMap :
           /\ s \notin Range(mergeCalls[j].sources)
           /\ s # mergeCalls[j].keep

\* C4 witness: the second group lists a project the first group absorbed and
\* is merged nevertheless
C4_Witness ==
  /\ Len(mergeCalls) = 2
  /\ MergeReturned(1)
  /\ Range(mergeCalls[1].sources) \cap projectMap
       \cap Range(consolidations[2].sourceProjects) # {}

\* C5: a group whose keep-project is not stored (never was, or was absorbed
\* earlier in the run) changes nothing in the repository, calls no merge and
\* adds no result; one "target" error is recorded and the loop goes on to the
\* next group, so that at the end every group has a result or an error.
C5_InvalidKeepIsRecordedAndSkipped ==
  /\ [](pc = "done" =>
         \A g \in 1..Len(consolidations) :
            \/ MergeReturned(g)
            \/ \E i \in 1..Len(errors) : errors[i].group = g)
  /\ [][(pc = "loop" /\ idx <= Len(consolidations)
         /\ consolidations[idx].targetProject \notin DOMAIN projects) =>
          /\ projects' = projects
          /\ tasks' = tasks
          /\ results' = results
          /\ mergeCalls' = mergeCalls
          /\ errors' = Append(errors, [kind |-> "target", group |-> idx])
          /\ idx' = idx + 1
          /\ pc' = "loop"]_vars

\* C5 witness: the first group's keep-project was not stored, and the second
\* group was merged after it
C5_Witness ==
  /\ Len(errors) >= 1
  /\ errors[1] = [kind |-> "target", group |-> 1]
  /\ MergeReturned(2)

\* the sources of a group that are left after excluding the keep-project and
\* every project absorbed in this run
RemainingSources(c) ==
  FilterOut(FilterOut(c.sourceProjects, {c.targetProject}),
            projectMap \ DOMAIN projects)

\* C6 as claimed: a group with a stored keep-project and no remaining source
\* is skipped: no merge call, no per-group result, name and context of the
\* keep-project unchanged.
C6_EmptySourceSetSkipsGroup ==
  [][(pc = "loop" /\ idx <= Len(consolidations)
      /\ consolidations[idx].targetProject \in DOMAIN projects
      /\ RemainingSources(consolidations[idx]) = <<>>) =>
       /\ mergeCalls' = mergeCalls
       /\ results' = results
       /\ projects' = projects]_vars

\* C7: success is true exactly when no error was recorded; the results of
\* the groups merged so far are kept and returned, and a step that records
\* an error without a result leaves projects and tasks as they were.
C7_SuccessIffNoErrorAndNoRollback ==
  /\ [](pc = "done" =>
         /\ (result.success <=> Len(errors) = 0)
         /\ result.consolidations = results
         /\ \A i \in 1..Len(results) :
              Range(results[i].sourceProjects) \cap projectMap \cap DOMAIN projects = {})
  /\ [][/\ Len(results') >= Len(results)
        /\ SubSeq(results', 1, Len(results)) = results
        /\ DOMAIN projects' \subseteq DOMAIN projects
        /\ (Len(errors') > Len(errors) /\ Len(results') = Len(results)) =>
              (projects' = projects /\ tasks' = tasks)]_vars

\* C7 witness: the first group was merged, the merge of the second threw,
\* and the run returned
C7_Witness ==
  /\ pc = "done"
  /\ ~result.success
  /\ Len(result.consolidations) = 1
  /\ result.consolidations[1].group = 1
  /\ \E i \in 1..Len(errors) : errors[i] = [kind |-> "exception", group |-> 2]
  /\ Range(result.consolidations[1].sourceProjects) \cap DOMAIN projects = {}

\* C8 as claimed: the source projects a per-group result lists are exactly
\* the projects that group's merge removed from the repository.
C8_ResultListsExactlyAbsorbed ==
  [][Len(results') > Len(results) =>
      Range(results'[Len(results')].sourceProjects) =
         DOMAIN projects \ DOMAIN projects']_vars

\* ------------------------------------------------------------------------
\* Properties of analyzeProjectConsolidation
\* ------------------------------------------------------------------------
\* C9: in a preview returned with success = true, the target of every group
\* is one of its source projects, and all its source ids and its target id
\* are ids of the projects passed to the analyzer.
C9_PreviewGroupsAreValid ==
  (apc = "done" /\ preview.success) =>
     \A i \in 1..Len(preview.proposedConsolidations) :
        LET g == preview.proposedConsolidations[i] IN
          /\ g.targetProject \in Range(g.sourceProjects)
          /\ Range(g.sourceProjects) \subseteq 1..aCount
          /\ g.targetProject \in 1..aCount

\* C9 witness: a successful preview built from three batches, holding more
\* groups than one answer can carry
C9_Witness ==
  /\ apc = "done" /\ preview.success
  /\ Len(aCalls) = 3
  /\ Len(preview.proposedConsolidations) > MaxRespGroups

\* a group of the body references an id outside the project set or has a
\* keepProjectId that is not among its sourceProjectIds
HasBadGroup(body, n) ==
  /\ body.json /\ body.hasGroups
  /\ \E i \in 1..Len(body.groups) :
       LET g == body.groups[i] IN
         /\ g.hasSources /\ g.keepIsNumber
         /\ \/ Range(g.sourceProjectIds) \ (1..n) # {}
            \/ g.keepProjectId \notin 1..n
            \/ g.keepProjectId \notin Range(g.sourceProjectIds)

\* C10: once an answer holding such a group has been received, the analysis
\* is over and its preview has success = false, no proposed consolidation
\* and a non-empty error.
C10_BadGroupRejectsPreview ==
  (lastOutcome.kind = "content" /\ HasBadGroup(lastOutcome.body, aCount)) =>
     /\ apc = "done"
     /\ ~preview.success
     /\ preview.proposedConsolidations = <<>>
     /\ preview.error # NoError

\* C10 witness: after a batch whose groups were accepted, an answer arrives
\* whose first group is valid and whose second group is not
C10_Witness ==
  /\ apc = "done"
  /\ Len(aCalls) >= 2
  /\ allGroups # <<>>
  /\ lastOutcome.kind = "content"
  /\ HasBadGroup(lastOutcome.body, aCount)
  /\ Len(lastOutcome.body.groups) = 2
  /\ GroupError(lastOutcome.body.groups[1], 1..aCount) = NoError

\* ------------------------------------------------------------------------
\* Properties of analyzeProjectConsolidation: group shape and batching
\* ------------------------------------------------------------------------
\* C11 as claimed: every consolidation group of a successful preview lists at
\* least two source projects.
C11_PreviewGroupsHaveTwoSources ==
  (apc = "done" /\ preview.success) =>
     \A i \in 1..Len(preview.proposedConsolidations) :
        Cardinality(Range(preview.proposedConsolidations[i].sourceProjects)) >= 2

\* C12 as claimed: across all groups of a successful preview, whatever batch
\* they come from, a project id is a source of at most one group.
C12_ProjectInAtMostOneGroup ==
  (apc = "done" /\ preview.success) =>
     \A i, j \in 1..Len(preview.proposedConsolidations) :
        i # j =>
          Range(preview.proposedConsolidations[i].sourceProjects)
            \cap Range(preview.proposedConsolidations[j].sourceProjects) = {}

\* the token estimate of the run exceeds the request budget
OverBudget == EstimateTokens(aCount * aChars) > MAX_TOKENS_PER_REQUEST

\* C13 as claimed: a run over two or more projects whose token estimate
\* exceeds the request budget, and whose calls all succeed, has invoked the
\* reasoning client more than once (retries not counted).
C13_OverBudgetMeansSeveralCalls ==
  (apc = "done" /\ preview.success /\ aCount >= 2 /\ OverBudget) =>
     Len(aCalls) > 1

\* C14: the batch branch is taken exactly when the token estimate exceeds the
\* budget or the project count exceeds the per-request cap. The slices handed
\* to callOpenAIWithRetry, one invocation per slice, start at the first
\* project, follow each other without gap or overlap in list order, hold at
\* most MAX_PROJECTS_PER_BATCH projects each and, once the run has succeeded,
\* end at the last project. Without batching there is exactly one invocation,
\* covering all projects.
C14_BatchesAreOrderedSlices ==
  aCalls # <<>> =>
     /\ aBatched <=> (OverBudget \/ aCount > MAX_PROJECTS_PER_BATCH)
     /\ aCalls[1].first = 1
     /\ \A k \in 1..Len(aCalls) :
          /\ aCalls[k].first <= aCalls[k].last
          /\ aCalls[k].last <= aCount
          /\ aCalls[k].last - aCalls[k].first + 1 <= MAX_PROJECTS_PER_BATCH
          /\ k > 1 => aCalls[k].first = aCalls[k - 1].last + 1
     /\ (apc = "done" /\ preview.success) => aCalls[Len(aCalls)].last = aCount
     /\ ~aBatched => aCalls = <<[first |-> 1, last |-> aCount]>>

\* C14 witness: a successful run over 61 projects, analysed in three batches
\* of 30, 30 and 1 projects
C14_Witness ==
  /\ apc = "done" /\ preview.success /\ aBatched
  /\ aCount = 2 * MAX_PROJECTS_PER_BATCH + 1
  /\ Len(aCalls) = 3
  /\ aCalls[3] = [first |-> aCount, last |-> aCount]

\* C15: a run over fewer than two projects never invokes the reasoning
\* client, and returns success = true, noChanges = true and no proposed
\* consolidation, whether or not the system prompt exists.
C15_TooFewProjectsNoCall ==
  aCount < 2 =>
     /\ aCalls = <<>>
     /\ lastOutcome = NoOutcome
     /\ apc \in {"start", "done"}
     /\ apc = "done" =>
          /\ preview.success
          /\ preview.noChanges
          /\ preview.proposedConsolidations = <<>>
          /\ preview.error = NoError

\* C15 witness: a finished run over one project, the system prompt missing
C15_Witness ==
  /\ apc = "done"
  /\ aCount = 1
  /\ ~aPrompt
  /\ preview.success /\ preview.noChanges

\* the body is no JSON, has no consolidationGroups array, or holds a group
\* that fails a check of the response validation
BodyFailsChecks(body, n) ==
  \/ ~body.json
  \/ ~body.hasGroups
  \/ \E i \in 1..Len(body.groups) :
       ~body.groups[i].hasSources \/ ~body.groups[i].keepIsNumber
  \/ HasBadGroup(body, n)

\* the run ended with a failed invocation or an unusable answer
RunFailed ==
  \/ lastOutcome.kind \in {"http", "timeout", "empty"}
  \/ lastOutcome.kind = "content" /\ BodyFailsChecks(lastOutcome.body, aCount)

\* C16: a finished run whose last invocation failed (retries included), got
\* no content, or got a body that fails parsing or validation, returns
\* success = false, a non-empty error and no proposed consolidation, even if
\* earlier batches produced groups. Every preview without success carries an
\* error and no proposal. A successful preview without proposals has
\* noChanges = true and comes only from a run over fewer than two projects
\* or from a run all of whose answers held zero groups.
C16_NoEmptySuccessAfterFailure ==
  apc = "done" =>
     /\ (RunFailed \/ ~preview.success) =>
          /\ ~preview.success
          /\ preview.error # NoError
          /\ preview.proposedConsolidations = <<>>
     /\ preview.success =>
          /\ preview.noChanges <=> preview.proposedConsolidations = <<>>
          /\ preview.proposedConsolidations = <<>> =>
               \/ aCount < 2
               \/ /\ allGroups = <<>>
                  /\ lastOutcome.kind = "content"
                  /\ lastOutcome.body.groups = <<>>

\* C16 witness: the first batch produced groups, then the second batch failed
\* with a server error on all three attempts
C16_Witness ==
  /\ apc = "done"
  /\ Len(aCalls) = 2
  /\ allGroups # <<>>
  /\ lastOutcome = [kind |-> "http", status |-> 500]
  /\ attempt = MAX_RETRIES - 1
  /\ ~preview.success

\* ------------------------------------------------------------------------
\* Properties of callOpenAIWithRetry
\* ------------------------------------------------------------------------
\* the request failed with HTTP 429 or 5xx
Transient(o) == o.kind = "http" /\ o.status \in {429} \cup 500..599

\* the request failed with a 4xx status other than 429 or returned no content
NonTransient(o) ==
  \/ o.kind = "http" /\ o.status \in 400..499 \ {429}
  \/ o.kind = "empty"

\* C17: within one invocation of the reasoning client at most three requests
\* are sent (attempt counts the failed ones before the current request). A
\* request failing with 429 or 5xx before the third attempt is followed by a
\* backoff wait and another request of the same invocation; when the third
\* attempt fails that way the analysis ends and reports that last error. The
\* first request that returns content ends the invocation, and that content
\* is what the analyzer parses.
C17_TransientRetriedAtMostThreeRequests ==
  /\ [](attempt < MAX_RETRIES /\ Len(waits) = attempt)
  /\ [][apc = "call" =>
         /\ (Transient(lastOutcome') /\ attempt < MAX_RETRIES - 1) =>
              /\ apc' = "call"
              /\ attempt' = attempt + 1
              /\ waits' = Append(waits, INITIAL_RETRY_DELAY_MS * 2^attempt)
              /\ aCalls' = aCalls
              /\ preview' = preview
         /\ (Transient(lastOutcome') /\ attempt = MAX_RETRIES - 1) =>
              /\ apc' = "done"
              /\ waits' = waits
              /\ ~preview'.success
              /\ preview'.error = IF lastOutcome'.status = 429
                                  THEN "rate limit exceeded"
                                  ELSE "service unavailable"
         /\ lastOutcome'.kind = "content" =>
              /\ waits' \in {waits, <<>>}
              /\ IF BodyFailsChecks(lastOutcome'.body, aCount)
                 THEN apc' = "done" /\ ~preview'.success
                 ELSE /\ allGroups' = allGroups \o lastOutcome'.body.groups
                      /\ \/ apc' = "done" /\ preview'.success
                         \/ attempt' = 0 /\ Len(aCalls') = Len(aCalls) + 1
     ]_vars

\* C17 witness: three requests of one invocation failed with 429, 1000 ms and
\* 2000 ms were waited in between, and the rate-limit error is reported
C17_Witness ==
  /\ apc = "done"
  /\ attempt = MAX_RETRIES - 1
  /\ waits = <<1000, 2000>>
  /\ lastOutcome = [kind |-> "http", status |-> 429]
  /\ ~preview.success
  /\ preview.error = "rate limit exceeded"

C21_NoMentionsNoCall ==
  newProjects = <<>> =>
     /\ rRequests = 0
     /\ rOutcome = NoOutcome
     /\ rpc \in {"start", "done", "idle"}
     /\ rResult.projectMappings = <<>>
     /\ rResult.taskAssignments = <<>>

\* C21 witness: a finished run over zero mentions, the prompt missing
C21_Witness ==
  /\ rpc = "done"
  /\ newProjects = <<>>
  /\ rReadOk /\ ~rPrompt
  /\ rResult = EmptyResult

\* the run met a failure: a repository read threw, the prompt was missing,
\* the request failed or returned no content, the content was no JSON, or
\* the parsed body lacked projectMappings or taskAssignments
RelateFailed ==
  \/ ~rReadOk
  \/ newProjects # <<>> /\ ~rPrompt
  \/ rOutcome \in FailedRequests
  \/ /\ rOutcome.kind = "content"
     /\ \/ ~rOutcome.body.json
        \/ ~rOutcome.body.hasMappings
        \/ ~rOutcome.body.hasAssignments

\* C22: every run ends with a result; a finished run that met a failure
\* returns exactly one create mapping per mention, in input order and
\* carrying the mention's name, and no task assignment.
C22_FailureReturnsAllCreateFallback ==
  (rpc = "done" /\ RelateFailed) =>
     /\ Len(rResult.projectMappings) = Len(newProjects)
     /\ \A i \in 1..Len(newProjects) :
          /\ rResult.projectMappings[i].newProjectName = newProjects[i]
          /\ rResult.projectMappings[i].action = "create"
          /\ rResult.projectMappings[i].targetProjectId = Null
     /\ rResult.taskAssignments = <<>>

\* C22 witness: a run over two different mentions got a body without
\* taskAssignments and returned the two create mappings
C22_Witness ==
  /\ rpc = "done"
  /\ Len(newProjects) = 2 /\ newProjects[1] # newProjects[2]
  /\ rOutcome.kind = "content"
  /\ rOutcome.body.json /\ rOutcome.body.hasMappings
  /\ ~rOutcome.body.hasAssignments
  /\ Len(rResult.projectMappings) = 2

\* ------------------------------------------------------------------------
\* Properties of executeConsolidation: the reported final count
\* ------------------------------------------------------------------------
\* C29 as claimed: when a run has returned, whatever groups it was given,
\* finalProjectCount is the number of projects stored in the repository.
C29_FinalCountIsStoredCount ==
  pc = "done" => result.finalProjectCount = Cardinality(DOMAIN projects)

\* ------------------------------------------------------------------------
\* Properties of executeConsolidation under concurrent deletion
\* ------------------------------------------------------------------------
\* C28 as claimed: when the run processes a group that lists a project
\* another request has deleted before (its keep-project or one of its
\* sources), it records an error, and it does not merge into a deleted
\* keep-project.
C28_ConcurrentDeleteIsDetected ==
  [][(pc = "loop" /\ idx' = idx + 1
        /\ GroupIds(consolidations[idx]) \cap extDeleted # {}) =>
       /\ Len(errors') > Len(errors)
       /\ consolidations[idx].targetProject \in extDeleted =>
            Len(results') = Len(results)]_vars

\* ------------------------------------------------------------------------
\* Properties of meeting ingestion
\* ------------------------------------------------------------------------
\* the tasks offered to the analyzer: unassigned tasks of this meeting
OfferedTasks == {t \in DOMAIN iTasks :
                   iTasks[t].meetingId = "new" /\ iTasks[t].projectId = Null}

\* the body names a merge target that is not stored, or a task that was not
\* offered
HasBadReference(body) ==
  \/ \E i \in 1..Len(body.projectMappings) :
       /\ body.projectMappings[i].action = "merge"
       /\ body.projectMappings[i].targetProjectId \notin DOMAIN iProjects
  \/ \E i \in 1..Len(body.taskAssignments) :
       body.taskAssignments[i].taskId \notin OfferedTasks

\* processProjectAnalysis has been handed the analysis and has done nothing
BeforeProcessing == rpc = "done" /\ ipc = "mappings" /\ iIdx = 1

\* C23 as claimed: when the answer names a merge target outside the stored
\* projects or a task outside the offered tasks, the analysis handed to
\* processProjectAnalysis is the all-create fallback.
C23_BadReferenceRejectsResponse ==
  (BeforeProcessing /\ rOutcome.kind = "content"
     /\ HasBadReference(rOutcome.body)) =>
       /\ Len(rResult.projectMappings) = Len(newProjects)
       /\ \A i \in 1..Len(rResult.projectMappings) :
            rResult.projectMappings[i].action = "create"
       /\ rResult.taskAssignments = <<>>

\* the update entries the repository holds for a mention of this meeting
Entries(P, name) ==
  UNION {{<<p, i>> : i \in {j \in 1..Len(P[p].updates) :
                              P[p].updates[j] = UpdateEntry(name)}} :
           p \in DOMAIN P}

\* how often the meeting mentions the name
Mentions(name) == Cardinality({i \in 1..Len(newProjects) : newProjects[i] = name})

\* C24 as claimed: when the ingestion is over, the repository holds an update
\* entry of this meeting (in a created project or appended to an existing
\* one) for every mention.
C24_NoMentionLost ==
  ipc = "done" =>
     \A i \in 1..Len(newProjects) : Entries(iProjects, newProjects[i]) # {}

\* C27 as claimed: no step of processProjectAnalysis changes the projectId
\* of a task that is assigned already or belongs to another meeting.
C27_OnlyOfferedTasksReassigned ==
  [][(ipc \in {"mappings", "assignments"}) =>
       \A t \in DOMAIN iTasks :
          t \notin OfferedTasks =>
             (iTasks'[t].projectId = iTasks[t].projectId)
    ]_vars

\* C30 as claimed: when the ingestion is over, also after processProjectAnalysis
\* threw and the route fell back, the repository holds no more update entries
\* of this meeting for a name than the meeting has mentions of it.
C30_NoDuplicateHistory ==
  ipc = "done" =>
     \A i \in 1..Len(newProjects) :
        Cardinality(Entries(iProjects, newProjects[i])) <= Mentions(newProjects[i])

\* a step that is one iteration of the mappings loop
MappingStep == ipc = "mappings" /\ ipc' = "mappings" /\ iIdx' = iIdx + 1

\* that iteration applies a merge: the mapping takes the merge branch and
\* its target is stored
MergeApplied(m) == IsMerge(m, newProjects) /\ m.targetProjectId \in DOMAIN iProjects

\* the mapping the previous iteration of the mappings loop handled
LastMapping == rResult.projectMappings[iIdx - 1]

\* the mappings loop has handled a mapping and nothing else has run since
AfterMapping ==
  /\ rpc = "done" /\ ipc = "mappings"
  /\ iIdx > 1 /\ iIdx - 1 <= Len(rResult.projectMappings)

\* C25: an applied merge mapping leaves the target's updates one entry
\* longer, the former entries first and in order, an entry of the analysed
\* meeting last, and changes no other project; a create mapping adds one
\* project whose updates are exactly one entry of that meeting.
C25_MappingAppendsOneEntry ==
  [][MappingStep =>
       LET m == rResult.projectMappings[iIdx]
           t == m.targetProjectId
       IN /\ MergeApplied(m) =>
               /\ DOMAIN iProjects' = DOMAIN iProjects
               /\ Len(iProjects'[t].updates) = Len(iProjects[t].updates) + 1
               /\ SubSeq(iProjects'[t].updates, 1, Len(iProjects[t].updates))
                    = iProjects[t].updates
               /\ iProjects'[t].updates[Len(iProjects'[t].updates)]
                    = UpdateEntry(m.newProjectName)
               /\ \A p \in DOMAIN iProjects \ {t} : iProjects'[p] = iProjects[p]
          /\ IsCreate(m, newProjects) =>
               /\ Cardinality(DOMAIN iProjects' \ DOMAIN iProjects) = 1
               /\ \A p \in DOMAIN iProjects : iProjects'[p] = iProjects[p]
               /\ \A p \in DOMAIN iProjects' \ DOMAIN iProjects :
                    iProjects'[p].updates = <<UpdateEntry(m.newProjectName)>>
    ]_vars

\* a merge mapping has just been applied to a project that had two updates
C25_Witness ==
  /\ AfterMapping
  /\ IsMerge(LastMapping, newProjects)
  /\ LastMapping.targetProjectId \in DOMAIN iProjects
  /\ Len(iProjects[LastMapping.targetProjectId].updates) = 3
  /\ iProjects[LastMapping.targetProjectId].updates[3].meetingId = "new"

\* C26 as claimed: an applied merge mapping without mergedName leaves the
\* target's name as it was, and one without mergedContext leaves the
\* target's context as it was.
C26_AbsentFieldsLeaveProject ==
  [][MappingStep =>
       LET m == rResult.projectMappings[iIdx]
           t == m.targetProjectId
       IN MergeApplied(m) =>
            /\ m.mergedName = Null => iProjects'[t].name = iProjects[t].name
            /\ m.mergedContext = "" =>
                 iProjects'[t].context = iProjects[t].context
    ]_vars

\* C26 amended: an applied merge mapping without mergedName leaves the
\* target's name as it was; one without mergedContext sets the target's
\* context to the context of the mention when the mention has one, and
\* leaves it as it was only when the mention has none.
C26_AbsentContextTakesMention ==
  [][MappingStep =>
       LET m == rResult.projectMappings[iIdx]
           t == m.targetProjectId
       IN MergeApplied(m) =>
            /\ m.mergedName = Null => iProjects'[t].name = iProjects[t].name
            /\ (m.mergedContext = "" /\ MentionContext(m.newProjectName) # "") =>
                 iProjects'[t].context = MentionContext(m.newProjectName)
            /\ (m.mergedContext = "" /\ MentionContext(m.newProjectName) = "") =>
                 iProjects'[t].context = iProjects[t].context
    ]_vars

\* a merge mapping without mergedName and mergedContext has just been
\* applied for a mention that has a context: the project holds it
C26_Witness ==
  /\ AfterMapping
  /\ IsMerge(LastMapping, newProjects)
  /\ LastMapping.targetProjectId \in DOMAIN iProjects
  /\ LastMapping.mergedName = Null
  /\ LastMapping.mergedContext = ""
  /\ MentionContext(LastMapping.newProjectName) # ""
  /\ iProjects[LastMapping.targetProjectId].context
       = MentionContext(LastMapping.newProjectName)

\* ------------------------------------------------------------------------
\* Specifications
\* ------------------------------------------------------------------------
\* one executeConsolidation run
InitExec == ExecInit /\ AnalyzeIdle /\ RelateIdle /\ IngestIdle

SpecExec == InitExec /\ [][ExecNext]_vars

\* one executeConsolidation run while other requests delete projects
ExecConcurrentNext ==
  \/ ExecStart
  \/ ExecTargetMissing
  \/ ExecNoSources
  \/ ExecMerge
  \/ ExecMergeThrows
  \/ ExecReturn
  \/ ExternalDelete

SpecExecConcurrent == InitExec /\ [][ExecConcurrentNext]_vars

\* one analyzeProjectConsolidation run
InitAnalyze == AnalyzeInit /\ ExecIdle /\ RelateIdle /\ IngestIdle

SpecAnalyze == InitAnalyze /\ [][AnalyzeNext]_vars

\* one analyzeProjectRelationships run
InitRelate == RelateInit /\ ExecIdle /\ AnalyzeIdle /\ IngestIdle

SpecRelate == InitRelate /\ [][RelateNext]_vars

\* the project handling of one POST /api/analyze request; the route enters
\* it only when the meeting mentions a project
InitIngest ==
  /\ RelateInit /\ ~NoMentions(newProjects)
  /\ IngestInit /\ ExecIdle /\ AnalyzeIdle

SpecIngest == InitIngest /\ [][IngestNext]_vars

====
